---- MODULE Spec2Model ----
(***************************************************************************)
(* Model of the conversational character library: AICharacter and          *)
(* AdvancedAICharacter (src/core/character.py) and the batch processor and *)
(* character manager (src/core/advanced_features.py).                      *)
(*                                                                         *)
(* A Python str is a sequence of characters; each character is one TLA+    *)
(* string (CJK characters are written in pinyin, homophones told apart by  *)
(* a suffix).  A dict record of conversation_history is an object with     *)
(* identity: it lives in `heap` and a history is a sequence of heap        *)
(* indexes, so two histories can share a record as two Python lists do.    *)
(***************************************************************************)
EXTENDS Integers, Sequences, FiniteSets, TLC

VARIABLES chars, heap, registry, last

vars == <<chars, heap, registry, last>>

(***************************************************************************)
(* Bounds of the model.                                                    *)
(***************************************************************************)
MaxChars == 2
MaxHeap == 2
MaxMerged == 1
MaxMergeHeap == 3
MaxRecords == 3
MaxBatch == 2
MaxConfigs == 2
MaxCreated == 3
MaxReplies == 2
MaxLedger == 2

(***************************************************************************)
(* Program constants.                                                      *)
(***************************************************************************)
MAX_NAME_LENGTH == 50
MAX_INPUT_LENGTH == 1000

(***************************************************************************)
(* str operations.                                                         *)
(***************************************************************************)
Whitespace == {" ", "\t", "\n"}

IsSpace(ch) == ch \in Whitespace

Rep(ch, n) == [i \in 1..n |-> ch]

SetMin(S) == CHOOSE x \in S : \A y \in S : x <= y

\* str.strip(): the text between the first and the last non-whitespace character
Strip(s) ==
    LET n == Len(s)
        lead == CHOOSE k \in 0..n : /\ \A j \in 1..k : IsSpace(s[j])
                                    /\ (k = n \/ ~IsSpace(s[k + 1]))
        trail == CHOOSE k \in 0..n : /\ \A j \in 1..k : IsSpace(s[n + 1 - j])
                                     /\ (k = n \/ ~IsSpace(s[n - k]))
    IN  IF lead = n THEN <<>> ELSE SubSeq(s, lead + 1, n - trail)

\* len(str.split()): the number of maximal runs of non-whitespace characters
WordCount(s) ==
    Cardinality({i \in 1..Len(s) : /\ ~IsSpace(s[i])
                                   /\ (i = 1 \/ IsSpace(s[i - 1]))})

\* `sub in s`
Contains(sub, s) ==
    \E i \in 1..(Len(s) - Len(sub) + 1) : SubSeq(s, i, i + Len(sub) - 1) = sub

StartsWith(s, prefix) ==
    /\ Len(prefix) <= Len(s)
    /\ SubSeq(s, 1, Len(prefix)) = prefix

\* bool(str): a str is truthy when it is not empty
Truthy(s) == Len(s) > 0

(***************************************************************************)
(* Values that are not a str.  A value is always a sequence of tokens: a   *)
(* str is the sequence of its characters, None is the one token "None",    *)
(* and the 1-tuple (s,) of a str s is s between the tokens "tuple(" and    *)
(* ")tuple".  No character is one of these tokens.                         *)
(***************************************************************************)
NoneValue == <<"None">>

Tuple1(s) == <<"tuple(">> \o s \o <<")tuple">>

IsTuple1(v) == Len(v) >= 2 /\ v[1] = "tuple(" /\ v[Len(v)] = ")tuple"

TupleItem(v) == SubSeq(v, 2, Len(v) - 1)

\* repr(s) of a str of printable characters without quotes or backslashes
Repr(s) == <<"'">> \o s \o <<"'">>

\* str(v), as an f-string or str.format renders a value: a str is itself,
\* a 1-tuple is its item's repr between "(" and ",)"
StrOf(v) ==
    IF v = NoneValue THEN <<"N", "o", "n", "e">>
    ELSE IF IsTuple1(v) THEN <<"(">> \o Repr(TupleItem(v)) \o <<",", ")">>
    ELSE v

(***************************************************************************)
(* str.format(name=...) over characters: "{{" and "}}" are escapes, a      *)
(* field "{name}" is replaced, any other field or a lone brace raises.     *)
(* The result is [exc |-> "none", val |-> text] or [exc |-> the error].    *)
(***************************************************************************)
Digits == {"0", "1", "2", "3", "4", "5", "6", "7", "8", "9"}

FieldName == <<"n", "a", "m", "e">>

FormatField(field) ==
    IF \E k \in 1..Len(field) : field[k] = "{" THEN "ValueError"
    ELSE IF field = FieldName THEN "none"
    ELSE IF \A k \in 1..Len(field) : field[k] \in Digits THEN "IndexError"
    ELSE "KeyError"

\* the scan from position i: literal text up to the next brace is copied
RECURSIVE FormatFrom(_, _, _, _)
FormatFrom(s, i, acc, name) ==
    LET braces == {j \in i..Len(s) : s[j] \in {"{", "}"}}
    IN  IF braces = {} THEN [exc |-> "none", val |-> acc \o SubSeq(s, i, Len(s))]
        ELSE LET b == SetMin(braces)
                 copied == acc \o SubSeq(s, i, b - 1)
                 closing == {j \in (b + 1)..Len(s) : s[j] = "}"}
             IN  IF b < Len(s) /\ s[b + 1] = s[b]
                 THEN FormatFrom(s, b + 2, Append(copied, s[b]), name)
                 ELSE IF s[b] = "}" \/ closing = {} THEN [exc |-> "ValueError"]
                 ELSE LET field == SubSeq(s, b + 1, SetMin(closing) - 1)
                      IN  IF FormatField(field) = "none"
                          THEN FormatFrom(s, SetMin(closing) + 1, copied \o name, name)
                          ELSE [exc |-> FormatField(field)]

Format(template, name) == FormatFrom(template, 1, <<>>, name)

(***************************************************************************)
(* The literal texts of the source, character by character.                *)
(***************************************************************************)
KwName == <<"ming_name", "zi">>

KwHello == <<"ni", "hao">>

KwWeather == <<"tian", "qi">>

KwAutumn == <<"qiu", "tian">>

KwThanks == <<"xie", "xie">>

CanHelp == <<"qing", "wen", "you", "shen_what", "me", "ke_can", "yi_use", "bang", "nin">>

\* the f-strings of the name rule, with self.name already substituted
NameReplies(name) ==
    << <<"wo", "jiao">> \o name \o
         <<"comma_fw", "wo", "shi_be", "yi_one", "ge", "A", "I", "zhu", "shou_hand">>,
       <<"wo", "shi_be">> \o name \o <<"comma_fw">> \o CanHelp >>

HelloReplies ==
    << <<"ni", "hao", "ya">>,
       <<"hai", "excl_fw", "hen", "gao", "xing", "jian", "dao_to", "ni">>,
       <<"ni", "hao", "comma_fw">> \o CanHelp >>

WeatherReplies ==
    << <<"jin", "tian", "xia", "yu", "comma_fw", "ji_note", "de_must", "dai_bring",
         "yu", "san_umbrella", "o", "excl_fw">>,
       <<"jin", "tian", "da_big", "qing_sunny", "tian", "comma_fw", "ke_can", "yi_use",
         "chu", "qu", "san_walk", "san_walk", "bu_step", "comma_fw", "ji_note",
         "de_must", "fang", "shai", "o">>,
       <<"jin", "tian", "tian", "qi", "bu_not", "cuo", "ne">> >>

AutumnReplies ==
    << <<"qiu", "tian", "shi_be", "feng", "shou_harvest", "de_of", "ji_season", "jie",
         "comma_fw", "wo", "xi", "huan", "qiu", "tian">>,
       <<"wo", "xi", "huan", "qiu", "tian", "de_of", "liang", "shuang">> >>

ThanksReplies ==
    << <<"bu_not", "ke_guest", "qi", "period_fw">>,
       <<"hen", "gao", "xing", "bang", "dao_to", "nin", "excl_fw">>,
       <<"zhe_this", "shi_be", "wo", "ying", "gai", "zuo", "de_of", "period_fw">> >>

\* rule_response, in the insertion order of the dict
RuleResponse(name) ==
    << [keyword |-> KwName, response |-> NameReplies(name)],
       [keyword |-> KwHello, response |-> HelloReplies],
       [keyword |-> KwWeather, response |-> WeatherReplies],
       [keyword |-> KwAutumn, response |-> AutumnReplies],
       [keyword |-> KwThanks, response |-> ThanksReplies] >>

\* the default reply when no keyword matched
FallbackReply(name, text) ==
    name \o <<":", "wo", "shi_be", "ni", "die", "comma_fw", "bu_not", "tai",
              "ming_bright", "bai">> \o text \o
    <<"de_of", "yi_mean", "si", "comma_fw", "ni", "ke_can", "yi_use", "wen", "wo",
      "tian", "qi", "comma_fw", "ming_name", "zi", "comma_fw", "huo", "zhe_or",
      "da_hit", "zhao", "hu", "o", "period_fw">>

TutorPrefix == <<"lbracket_fw", "xue", "sheng", "ti", "wen", "rbracket_fw">>

ReviewerPrefix == <<"lbracket_fw", "dai_code", "ma", "shen_review", "cha", "rbracket_fw">>

ReviewLabel == <<"shen_review", "cha", "yi_mean", "jian", "colon_fw">>

TutorLabel == <<"dao_guide", "shi_teacher", "hui", "da_answer">>

DEFAULT_MODEL == "gpt-3.5-turbo"

ADVANCED_MODEL == "gpt-4"

(***************************************************************************)
(* Objects.  chars[c] is a character object (cls is its class; role and    *)
(* token_used are used only by AdvancedAICharacter); heap[r] is a record   *)
(* dict of some conversation_history; registry is the manager's dict.      *)
(***************************************************************************)
Base == "AICharacter"

Advanced == "AdvancedAICharacter"

NoRole == "-"

NoValue == [none |-> TRUE]

EmptyDict == [k \in {} |-> 0]

Ok == "none"

\* AICharacter.__init__ / AdvancedAICharacter.__init__: the name is stored as given
NewObject(cls, name, role) ==
    [cls |-> cls,
     name |-> name,
     model |-> IF cls = Advanced THEN ADVANCED_MODEL ELSE DEFAULT_MODEL,
     role |-> IF cls = Advanced THEN role ELSE NoRole,
     token_used |-> 0,
     api_key |-> NoneValue,
     history |-> <<>>]

(***************************************************************************)
(* AICharacter.validate_input: the error the wrapper raises, or Ok.        *)
(***************************************************************************)
ValidateInput(text) ==
    IF ~Truthy(Strip(text)) THEN "TypeError"
    ELSE IF Len(text) > MAX_INPUT_LENGTH THEN "TypeError"
    ELSE Ok

(***************************************************************************)
(* AICharacter.speak, after validation.                                    *)
(***************************************************************************)
\* the rules whose keyword occurs in the text, as indexes of rule_response
Matching(name, text) ==
    {k \in 1..Len(RuleResponse(name)) : Contains(RuleResponse(name)[k].keyword, text)}

\* a slip: the last matching rule wins
CandidatesOfLastMatch(name, text) ==
    IF Matching(name, text) = {} THEN <<>>
    ELSE RuleResponse(name)[CHOOSE k \in Matching(name, text) :
                                \A j \in Matching(name, text) : j <= k].response

\* the reply list random.choice draws from (none on the fallback path)
Candidates(name, text) ==
    IF Matching(name, text) = {} THEN <<>>
    ELSE RuleResponse(name)[SetMin(Matching(name, text))].response

\* ai_response: [exc, val]; pick is the draw of random.choice
EngineReply(name, text, pick) ==
    IF Candidates(name, text) = <<>>
    THEN [exc |-> Ok, val |-> FallbackReply(name, text)]
    ELSE Format(Candidates(name, text)[pick], name)

ConversationRecord(text, reply, model) ==
    [user |-> text, assistant |-> reply, model |-> model]

\* a slip: the record is inserted at the head of the history
AppendRecordAtHead(st, c, rec) ==
    [chars |-> [st.chars EXCEPT ![c].history = <<Len(st.heap) + 1>> \o @],
     heap |-> Append(st.heap, rec)]

AppendRecord(st, c, rec) ==
    [chars |-> [st.chars EXCEPT ![c].history = Append(@, Len(st.heap) + 1)],
     heap |-> Append(st.heap, rec)]

BaseSpeak(st, c, text, pick) ==
    IF ValidateInput(text) # Ok
    THEN [exc |-> ValidateInput(text), st |-> st, ret |-> NoValue, raw |-> NoValue]
    ELSE LET reply == EngineReply(StrOf(st.chars[c].name), text, pick)
         IN  IF reply.exc # Ok
             THEN [exc |-> reply.exc, st |-> st, ret |-> NoValue, raw |-> NoValue]
             ELSE [exc |-> Ok,
                   st |-> AppendRecord(st, c,
                              ConversationRecord(text, reply.val, st.chars[c].model)),
                   ret |-> reply.val,
                   raw |-> reply.val]

(***************************************************************************)
(* AdvancedAICharacter.speak and its helpers.                              *)
(***************************************************************************)
PrefixedText(role, text) ==
    IF role = "tutor" THEN TutorPrefix \o text
    ELSE IF role = "reviewer" THEN ReviewerPrefix \o text
    ELSE text

FormatResponseByRole(role, response) ==
    IF role = "reviewer" THEN ReviewLabel \o response
    ELSE IF role = "tutor" THEN TutorLabel \o response
    ELSE response

\* a slip: the reply is not counted
UpdateTokenUsageInputOnly(token_used, input_message, output_message) ==
    token_used + WordCount(input_message)

UpdateTokenUsage(token_used, input_message, output_message) ==
    token_used + WordCount(input_message) + WordCount(output_message)

\* a slip: the record keeps the raw reply
OverwriteLastSkipped(st, c, formatted) == st

\* last_record['assistant'] = formatted_response, on the last record of the history
OverwriteLast(st, c, formatted) ==
    LET h == st.chars[c].history
    IN  IF h = <<>> THEN st
        ELSE [st EXCEPT !.heap[h[Len(h)]].assistant = formatted]

AdvancedSpeak(st, c, text, pick) ==
    LET role == st.chars[c].role
        prefixed == PrefixedText(role, text)
        r == BaseSpeak(st, c, prefixed, pick)
    IN  IF r.exc # Ok THEN r
        ELSE LET counted == [r.st EXCEPT !.chars[c].token_used =
                                 UpdateTokenUsage(@, prefixed, r.ret)]
                 formatted == FormatResponseByRole(role, r.ret)
             IN  [exc |-> Ok, st |-> OverwriteLast(counted, c, formatted),
                  ret |-> formatted, raw |-> r.ret]

\* char.speak(text), by the class of the object
SpeakOf(st, c, text, pick) ==
    IF st.chars[c].cls = Advanced THEN AdvancedSpeak(st, c, text, pick)
    ELSE BaseSpeak(st, c, text, pick)

\* the draws random.choice can make inside char.speak(text)
Picks(st, c, text) ==
    LET seen == IF st.chars[c].cls = Advanced
                THEN PrefixedText(st.chars[c].role, text) ELSE text
        n == Len(Candidates(st.chars[c].name, seen))
    IN  IF ValidateInput(seen) # Ok \/ n = 0 THEN {1} ELSE 1..n

(***************************************************************************)
(* The name setter, __getitem__ and __add__ of AICharacter.                *)
(***************************************************************************)
NameSetter(value) ==
    IF ~Truthy(value) \/ ~Truthy(Strip(value)) THEN "ValueError"
    ELSE IF Len(value) > MAX_NAME_LENGTH THEN "ValueError"
    ELSE Ok

\* a slip: a negative index is not counted from the end
GetItemIntNoWrap(h, index) ==
    IF 0 <= index /\ index < Len(h)
    THEN [exc |-> Ok, ret |-> h[index + 1]]
    ELSE [exc |-> "IndexError", ret |-> 0]

\* an int index into a history h: the record object found, or IndexError
GetItemInt(h, index) ==
    LET n == Len(h)
        idx == IF index < 0 THEN n + index ELSE index
    IN  IF 0 <= idx /\ idx < n
        THEN [exc |-> Ok, ret |-> h[idx + 1]]
        ELSE [exc |-> "IndexError", ret |-> 0]

MergedName(a, b) == StrOf(a) \o <<"&">> \o StrOf(b)

\* a slip: the operands are swapped
MergedHistorySwapped(ha, hb) == hb \o ha

\* list + list: a new list holding the same record objects
MergedHistory(ha, hb) == ha \o hb

(***************************************************************************)
(* AIConversationBatchProcessor.batch_converse: the loop from position i,  *)
(* `response` being the local variable (Unbound until a speak returned).   *)
(***************************************************************************)
Unbound == [unbound |-> TRUE]

DictSet(d, key, value) ==
    [k \in DOMAIN d \cup {key} |-> IF k = key THEN value ELSE d[k]]

RECURSIVE BatchFrom(_, _, _, _, _, _, _, _)
BatchFrom(st, cs, message, picks, i, response, results, trace) ==
    IF i > Len(cs)
    THEN [exc |-> Ok, st |-> st, results |-> results, trace |-> trace]
    ELSE LET r == SpeakOf(st, cs[i], message, picks[i])
             key == st.chars[cs[i]].name
         IN  IF r.exc = Ok
             THEN BatchFrom(r.st, cs, message, picks, i + 1, r.ret,
                            DictSet(results, key, [response |-> r.ret, success |-> TRUE]),
                            Append(trace, Ok))
             ELSE IF response = Unbound
             THEN [exc |-> "UnboundLocalError", st |-> st, results |-> results,
                   trace |-> Append(trace, r.exc)]
             ELSE BatchFrom(st, cs, message, picks, i + 1, response,
                            DictSet(results, key, [response |-> response, success |-> FALSE]),
                            Append(trace, r.exc))

BatchConverseOf(st, cs, message, picks) ==
    BatchFrom(st, cs, message, picks, 1, Unbound, EmptyDict, <<>>)

(***************************************************************************)
(* The api_key setter and batch_create_characters.  A configuration dict   *)
(* is [keys, name, advanced, role, api_key]: keys is the set of keys the   *)
(* dict holds, the other fields are the values under them.                 *)
(***************************************************************************)
MIN_API_KEY_LENGTH == 20

KeyPrefix == <<"s", "k", "-">>

\* the error the api_key setter raises for a value, or Ok
ApiKeySetter(value) ==
    IF value = NoneValue THEN "AttributeError"
    ELSE IF ~StartsWith(value, KeyPrefix) THEN "ValueError"
    ELSE IF Len(value) < MIN_API_KEY_LENGTH THEN "ValueError"
    ELSE IF Contains(<<" ">>, value) THEN "ValueError"
    ELSE Ok

\* name = config['name'],   -- the trailing comma makes a 1-tuple
ConfigName(config) == Tuple1(config.name)

\* the object the body of the loop constructs for a configuration with a name
ConfiguredObject(config) ==
    LET advanced == "advanced" \in config.keys /\ config.advanced
        role == IF "role" \in config.keys THEN config.role ELSE "assistant"
    IN  [NewObject(IF advanced THEN Advanced ELSE Base, ConfigName(config), role)
            EXCEPT !.model = DEFAULT_MODEL]

\* one turn of the loop: the characters appended (none or one) and the
\* error the turn's handlers caught, if any
CreateOne(config) ==
    IF "name" \notin config.keys THEN [made |-> <<>>, caught |-> Ok]
    ELSE IF "api_key" \notin config.keys
    THEN [made |-> <<ConfiguredObject(config)>>, caught |-> Ok]
    ELSE IF ApiKeySetter(config.api_key) = Ok
    THEN [made |-> <<[ConfiguredObject(config) EXCEPT !.api_key = config.api_key]>>,
          caught |-> Ok]
    ELSE IF ApiKeySetter(config.api_key) = "ValueError"
    THEN [made |-> <<ConfiguredObject(config)>>, caught |-> "ValueError"]
    ELSE [made |-> <<>>, caught |-> ApiKeySetter(config.api_key)]

RECURSIVE BatchCreateFrom(_, _, _, _)
BatchCreateFrom(configs, i, characters, caught) ==
    IF i > Len(configs) THEN [exc |-> Ok, characters |-> characters, caught |-> caught]
    ELSE BatchCreateFrom(configs, i + 1, characters \o CreateOne(configs[i]).made,
                         Append(caught, CreateOne(configs[i]).caught))

BatchCreateOf(configs) == BatchCreateFrom(configs, 1, <<>>, <<>>)

(***************************************************************************)
(* AIConversationAnalyzer.  The timestamp of a record is the reading of    *)
(* the clock when speak made it; records are made one at a time, so the    *)
(* readings are ordered as the records are in the heap, and the model      *)
(* takes the heap index of a record as its timestamp.  An average is kept  *)
(* in hundredths, as round(x, 2) yields it.                                *)
(***************************************************************************)
Timestamp(r) == r

\* start_date / end_date not given (None)
NoBound == 0

\* dict.get(key, default) on a record
DictGet(rec, key, default) == IF key \in DOMAIN rec THEN rec[key] ELSE default

\* the words of the values found under a key, summed over a history
RECURSIVE TotalWords(_, _, _)
TotalWords(hp, h, key) ==
    IF h = <<>> THEN 0
    ELSE WordCount(DictGet(hp[Head(h)], key, <<>>)) + TotalWords(hp, Tail(h), key)

\* round(total / n, 2), in hundredths (no quotient of fewer than 8 records
\* lies halfway between two hundredths)
Round2(total, n) == (200 * total + n) \div (2 * n)

\* get_conversation_stats; today is the number of records the clock dates today
GetConversationStats(st, c, today) ==
    LET h == st.chars[c].history
        total == Len(h)
    IN  IF h = <<>> THEN [total |-> 0, message |-> "no records"]
        ELSE [total_conversation |-> total,
              today_conversation |-> today,
              avg_user_words |-> Round2(TotalWords(st.heap, h, "users"), total),
              avg_assistant_words |-> Round2(TotalWords(st.heap, h, "assistant"), total),
              first_conversation |-> Timestamp(h[1]),
              last_conversation |-> Timestamp(h[Len(h)])]

\* conv('timestamp'): a dict is not callable
CallDict == "TypeError"

\* export_conversations: the first turn of the loop calls the record
ExportConversations(st, c, start_date, end_date) ==
    IF st.chars[c].history = <<>> THEN [exc |-> Ok, ret |-> <<>>]
    ELSE [exc |-> CallDict, ret |-> <<>>]

(***************************************************************************)
(* State machine: one action per call a client can make.                   *)
(***************************************************************************)
State == [chars |-> chars, heap |-> heap]

Ids == 1..Len(chars)

Init ==
    /\ chars = <<>>
    /\ heap = <<>>
    /\ registry = EmptyDict
    /\ last = [op |-> "start"]

\* AICharacter(name, prompt) or AdvancedAICharacter(name, prompt, role=role)
NewCharacter(cls, name, role) ==
    /\ chars' = Append(chars, NewObject(cls, name, role))
    /\ last' = [op |-> "init", c |-> Len(chars) + 1]
    /\ UNCHANGED <<heap, registry>>

\* c.name = value
SetName(c, value) ==
    /\ chars' = IF NameSetter(value) = Ok
                THEN [chars EXCEPT ![c].name = Strip(value)]
                ELSE chars
    /\ last' = [op |-> "set_name", c |-> c, value |-> value, exc |-> NameSetter(value)]
    /\ UNCHANGED <<heap, registry>>

\* c.speak(text)
Speak(c, text, pick) ==
    \E r \in {SpeakOf(State, c, text, pick)} :
        /\ chars' = r.st.chars
        /\ heap' = r.st.heap
        /\ last' = [op |-> "speak", c |-> c, text |-> text, exc |-> r.exc,
                    ret |-> r.ret, raw |-> r.raw]
        /\ UNCHANGED registry

\* c[index] with an int index
GetItem(c, index) ==
    \E r \in {GetItemInt(chars[c].history, index)} :
        /\ last' = [op |-> "getitem", c |-> c, index |-> index, exc |-> r.exc,
                    ret |-> r.ret]
        /\ UNCHANGED <<chars, heap, registry>>

\* a + b, b a character
Merge(a, b) ==
    /\ chars' = Append(chars,
          [NewObject(Base, MergedName(chars[a].name, chars[b].name), NoRole)
              EXCEPT !.history = MergedHistory(chars[a].history, chars[b].history)])
    /\ last' = [op |-> "add", a |-> a, b |-> b, exc |-> Ok, c |-> Len(chars) + 1]
    /\ UNCHANGED <<heap, registry>>

\* a + other, other not an AICharacter
MergeOther(a) ==
    /\ last' = [op |-> "add", a |-> a, b |-> 0, exc |-> "TypeError", c |-> 0]
    /\ UNCHANGED <<chars, heap, registry>>

\* manager.add_character(c)
AddCharacter(c) ==
    LET dup == chars[c].name \in DOMAIN registry
    IN  /\ registry' = IF dup THEN registry ELSE DictSet(registry, chars[c].name, c)
        /\ last' = [op |-> "add_character", c |-> c,
                    exc |-> IF dup THEN "ValueError" ELSE Ok]
        /\ UNCHANGED <<chars, heap>>

\* manager.remove_character(name)
RemoveCharacter(name) ==
    LET known == name \in DOMAIN registry
    IN  /\ registry' = IF known
                       THEN [k \in DOMAIN registry \ {name} |-> registry[k]]
                       ELSE registry
        /\ last' = [op |-> "remove_character", name |-> name,
                    exc |-> IF known THEN Ok ELSE "ValueError"]
        /\ UNCHANGED <<chars, heap>>

\* AIConversationBatchProcessor.batch_converse(cs, message)
BatchConverse(cs, message, picks) ==
    \E r \in {BatchConverseOf(State, cs, message, picks)} :
        /\ chars' = r.st.chars
        /\ heap' = r.st.heap
        /\ last' = [op |-> "batch_converse", cs |-> cs, message |-> message,
                    exc |-> r.exc, results |-> r.results, trace |-> r.trace]
        /\ UNCHANGED registry

\* AIConversationBatchProcessor.batch_create_characters(configs); the
\* characters returned are chars[first..last]
BatchCreate(configs) ==
    \E r \in {BatchCreateOf(configs)} :
        /\ chars' = chars \o r.characters
        /\ last' = [op |-> "batch_create", configs |-> configs, exc |-> r.exc,
                    first |-> Len(chars) + 1, n |-> Len(r.characters),
                    caught |-> r.caught]
        /\ UNCHANGED <<heap, registry>>

\* AIConversationAnalyzer(c).get_conversation_stats()
Stats(c, today) ==
    /\ last' = [op |-> "stats", c |-> c, exc |-> Ok,
                ret |-> GetConversationStats(State, c, today)]
    /\ UNCHANGED <<chars, heap, registry>>

\* AIConversationAnalyzer(c).export_conversations(start_date, end_date);
\* on an error ret holds no value
Export(c, start_date, end_date) ==
    \E r \in {ExportConversations(State, c, start_date, end_date)} :
        /\ last' = [op |-> "export", c |-> c, start_date |-> start_date,
                    end_date |-> end_date, exc |-> r.exc, ret |-> r.ret]
        /\ UNCHANGED <<chars, heap, registry>>

(***************************************************************************)
(* Inputs the clients draw from.                                           *)
(***************************************************************************)
NameA == <<"A">>

NameB == <<"B">>

LongName == Rep("a", MAX_NAME_LENGTH)

TextEmpty == <<>>

TextBlank == <<" ">>

TextHello == KwHello

TextPlain == <<"x", " ", "y">>

TextLong == Rep("x", MAX_INPUT_LENGTH + 1)

Roles == {"assistant", "tutor", "reviewer", "coach"}

Kinds == {<<Base, NoRole>>} \cup {<<Advanced, r>> : r \in Roles}

\* sequences of distinct characters, at most MaxBatch long
RECURSIVE Lists(_, _)
Lists(S, n) ==
    IF n = 0 THEN {<<>>}
    ELSE {<<>>} \cup {<<x>> \o l : x \in S, l \in Lists(S, n - 1)}

Distinct(l) == \A i, j \in 1..Len(l) : i # j => l[i] # l[j]

BatchLists(n) == {l \in Lists(Ids, n) : Distinct(l)}

PickLists(cs, message) ==
    {p \in [1..Len(cs) -> 1..3] : \A i \in 1..Len(cs) : p[i] \in Picks(State, cs[i], message)}

(***************************************************************************)
(* Spec: every operation, on a few characters.  The guards on Len(chars)   *)
(* and Len(heap) are the bounds of the model, not conditions of the code.  *)
(***************************************************************************)
SpecCast == {<<Base, NoRole, NameA>>, <<Advanced, "tutor", NameB>>}

SpecNameValues == {<<>>, NameA, <<" ">> \o LongName}

SpecTexts == {TextEmpty, TextPlain}

Next ==
    \/ /\ Len(chars) < MaxChars
       /\ \E k \in SpecCast : NewCharacter(k[1], k[3], k[2])
    \/ \E c \in Ids, v \in SpecNameValues : SetName(c, v)
    \/ /\ Len(heap) < MaxHeap
       /\ \E c \in Ids, t \in SpecTexts : \E p \in Picks(State, c, t) : Speak(c, t, p)
    \/ \E c \in Ids : GetItem(c, -1)
    \/ /\ Len(chars) < MaxChars
       /\ \E a, b \in Ids : Merge(a, b)
    \/ \E a \in Ids : MergeOther(a)
    \/ \E c \in Ids : AddCharacter(c)
    \/ \E n \in {NameA, NameB} : RemoveCharacter(n)
    \/ \E cs \in BatchLists(MaxBatch), m \in SpecTexts :
          /\ Len(heap) + Len(cs) <= MaxHeap
          /\ \E p \in PickLists(cs, m) : BatchConverse(cs, m, p)

Spec == Init /\ [][Next]_vars

(***************************************************************************)
(* SpecSpeak: one character of any class and role, spoken to, renamed and  *)
(* read.                                                                   *)
(***************************************************************************)
SpeakTexts == {TextEmpty, TextBlank, TextHello, TextPlain, TextLong}

SpeakNames == {NameA}

SpeakNameValues == {<<>>, <<" ", "C", " ">>}

InitSpeak ==
    /\ \E k \in Kinds, n \in SpeakNames : chars = <<NewObject(k[1], n, k[2])>>
    /\ heap = <<>>
    /\ registry = EmptyDict
    /\ last = [op |-> "init", c |-> 1]

NextSpeak ==
    \/ /\ Len(heap) < MaxRecords
       /\ \E t \in SpeakTexts : \E p \in Picks(State, 1, t) : Speak(1, t, p)
    \/ \E i \in -(Len(chars[1].history) + 2)..(Len(chars[1].history) + 1) : GetItem(1, i)
    \/ \E v \in SpeakNameValues : SetName(1, v)

SpecSpeak == InitSpeak /\ [][NextSpeak]_vars

(***************************************************************************)
(* SpecMerge: two characters and the characters merged from them.          *)
(***************************************************************************)
MergeCast == {<<Base, NoRole>>, <<Advanced, "tutor">>}

MergeTexts == {TextLong, TextPlain}

MergeOperands == <<NameA, NameB>>

InitMerge ==
    /\ \E ka, kb \in MergeCast :
          chars = <<NewObject(ka[1], MergeOperands[1], ka[2]),
                    NewObject(kb[1], MergeOperands[2], kb[2])>>
    /\ heap = <<>>
    /\ registry = EmptyDict
    /\ last = [op |-> "init", c |-> 2]

NextMerge ==
    \/ /\ Len(heap) < MaxMergeHeap
       /\ \E c \in Ids, t \in MergeTexts : \E p \in Picks(State, c, t) : Speak(c, t, p)
    \/ /\ Len(chars) < Len(MergeOperands) + MaxMerged
       /\ \E a, b \in Ids : Merge(a, b)

SpecMerge == InitMerge /\ [][NextMerge]_vars

(***************************************************************************)
(* SpecCreate: characters made by the constructors, by batch creation and  *)
(* by merge, and renamed.                                                  *)
(***************************************************************************)
Config(keys, name, advanced, role, api_key) ==
    [keys |-> keys, name |-> name, advanced |-> advanced, role |-> role,
     api_key |-> api_key]

KeyShort == KeyPrefix \o <<"1", "2", "3">>

KeyValid == KeyPrefix \o Rep("a", MIN_API_KEY_LENGTH)

CreateConfigs ==
    { Config({"name"}, NameA, FALSE, "assistant", NoneValue),
      Config({"prompt"}, NameA, FALSE, "assistant", NoneValue),
      Config({"name", "advanced", "role"}, NameB, TRUE, "tutor", NoneValue),
      Config({"name", "api_key"}, NameA, FALSE, "assistant", KeyShort),
      Config({"name", "api_key"}, NameB, FALSE, "assistant", KeyValid),
      Config({"name", "api_key"}, NameA, FALSE, "assistant", NoneValue),
      Config({"name"}, <<>>, FALSE, "assistant", NoneValue) }

RECURSIVE ConfigLists(_)
ConfigLists(n) ==
    IF n = 0 THEN {<<>>}
    ELSE {<<>>} \cup {<<x>> \o l : x \in CreateConfigs, l \in ConfigLists(n - 1)}

CreateCast == {<<Base, NoRole, NameA>>, <<Base, NoRole, <<>>>>,
               <<Advanced, "tutor", LongName>>}

CreateNameValues == {NameB, <<" ", "C", " ">>, <<>>}

NextCreate ==
    \/ \E configs \in ConfigLists(MaxConfigs) :
          /\ Len(chars) + Len(configs) <= MaxCreated
          /\ BatchCreate(configs)
    \/ /\ Len(chars) < MaxCreated
       /\ \E k \in CreateCast : NewCharacter(k[1], k[3], k[2])
    \/ \E c \in Ids, v \in CreateNameValues : SetName(c, v)
    \/ /\ Len(chars) < MaxCreated
       /\ \E a, b \in Ids : Merge(a, b)

SpecCreate == Init /\ [][NextCreate]_vars

(***************************************************************************)
(* SpecReply: one character asked texts that hold no, one or several       *)
(* keywords, at the start, in the middle or overlapping.                   *)
(***************************************************************************)
NameBrace == <<"{", "x", "}">>

TextAskName == <<"x">> \o KwName \o <<"?">>

TextWeatherHello == KwWeather \o <<" ">> \o KwHello

TextAutumnWeather == <<"qiu", "tian", "qi">>

TextThanksAutumn == KwThanks \o KwAutumn

TextHelloName == KwHello \o KwName

TextHalfKeyword == <<"ni", "x", "hao">>

ReplyTexts == {TextAskName, TextWeatherHello, TextAutumnWeather, TextThanksAutumn,
               TextHelloName, KwThanks, TextHalfKeyword, TextPlain}

ReplyCast == {<<Base, NoRole>>, <<Advanced, "tutor">>, <<Advanced, "reviewer">>}

ReplyNames == {NameA, NameBrace}

InitReply ==
    /\ \E k \in ReplyCast, n \in ReplyNames : chars = <<NewObject(k[1], n, k[2])>>
    /\ heap = <<>>
    /\ registry = EmptyDict
    /\ last = [op |-> "init", c |-> 1]

NextReply ==
    /\ Len(heap) < MaxReplies
    /\ \E t \in ReplyTexts : \E p \in Picks(State, 1, t) : Speak(1, t, p)

SpecReply == InitReply /\ [][NextReply]_vars

(***************************************************************************)
(* SpecAnalyzer: one character spoken to and analysed.                     *)
(***************************************************************************)
AnalyzerCast == {<<Base, NoRole>>, <<Advanced, "tutor">>}

AnalyzerTexts == {TextEmpty, TextHello, TextPlain}

\* the dates a client can give: none, or a reading of the clock
DateBounds == {NoBound} \cup {Timestamp(r) : r \in 1..(MaxLedger + 1)}

InitAnalyzer ==
    /\ \E k \in AnalyzerCast : chars = <<NewObject(k[1], NameA, k[2])>>
    /\ heap = <<>>
    /\ registry = EmptyDict
    /\ last = [op |-> "init", c |-> 1]

NextAnalyzer ==
    \/ /\ Len(heap) < MaxLedger
       /\ \E t \in AnalyzerTexts : \E p \in Picks(State, 1, t) : Speak(1, t, p)
    \/ \E today \in 0..Len(chars[1].history) : Stats(1, today)
    \/ \E s, e \in DateBounds : Export(1, s, e)

SpecAnalyzer == InitAnalyzer /\ [][NextAnalyzer]_vars

(***************************************************************************)
(* Claims.  A step is a call of c.speak when last' records one; the        *)
(* unprimed variables are then the state before the call.                  *)
(***************************************************************************)
IsBlank(text) == \A i \in 1..Len(text) : IsSpace(text[i])

\* the records of character c, in order, in a given state
LedgerOf(cs, hp, c) == [i \in 1..Len(cs[c].history) |-> hp[cs[c].history[i]]]

SpokeOk(c) == last'.op = "speak" /\ last'.c = c /\ last'.exc = Ok

\* the text the rule engine of character object ch is given for an input
SeenText(ch, text) == IF ch.cls = Advanced THEN PrefixedText(ch.role, text) ELSE text

\* C1: on a base character, speak of an empty or whitespace-only text fails
\* with the ValueError the test expects and leaves the ledger as it was.
C1_BlankSpeakRaisesValueError ==
    [][(/\ last'.op = "speak"
        /\ chars[last'.c].cls = Base
        /\ IsBlank(last'.text))
       => (/\ last'.exc = "ValueError"
           /\ LedgerOf(chars', heap', last'.c) = LedgerOf(chars, heap, last'.c))]_vars

\* C2: a successful speak appends exactly one record at the end of the
\* speaker's ledger, holding the text the engine saw; every other step keeps
\* the length; the records a ledger held before a step keep their position
\* and content.
C2_LedgerAppendOnly ==
    [][\A c \in DOMAIN chars :
          LET before == LedgerOf(chars, heap, c)
              after == LedgerOf(chars', heap', c)
          IN  /\ Len(after) = IF SpokeOk(c) THEN Len(before) + 1 ELSE Len(before)
              /\ SpokeOk(c) => after[Len(after)].user = SeenText(chars[c], last'.text)
              /\ SubSeq(after, 1, Len(before)) = before
              /\ SubSeq(chars'[c].history, 1, Len(before)) = chars[c].history]_vars

\* a successful speak, on the fallback path, onto a ledger that held records
C2_Witness ==
    /\ last.op = "speak"
    /\ last.exc = Ok
    /\ Len(chars[last.c].history) >= 2
    /\ Candidates(chars[last.c].name, heap[Len(heap)].user) = <<>>

\* C3: on a role-specialized character of any role, speak of an empty or
\* whitespace-only text fails and changes neither the ledger nor token_used.
C3_AdvancedBlankSpeakFails ==
    [][(/\ last'.op = "speak"
        /\ chars[last'.c].cls = Advanced
        /\ IsBlank(last'.text))
       => (/\ last'.exc # Ok
           /\ chars' = chars
           /\ heap' = heap)]_vars

\* C5: an int index i into a ledger of n records reads the record at i, or
\* at n + i when i is negative, when that lies in [0, n), and raises
\* IndexError, returning no record, otherwise.
C5_IndexedRead ==
    last.op = "getitem" =>
        LET h == chars[last.c].history
            n == Len(h)
            k == IF last.index < 0 THEN n + last.index ELSE last.index
        IN  IF k \in 0..(n - 1)
            THEN last.exc = Ok /\ last.ret = h[k + 1]
            ELSE last.exc = "IndexError" /\ last.ret = 0

\* character[-1] read on a ledger of three records: it is character[2]
C5_Witness ==
    /\ last.op = "getitem"
    /\ last.index = -1
    /\ Len(chars[last.c].history) = 3
    /\ last.exc = Ok
    /\ last.ret = chars[last.c].history[3]

\* C7: after a successful speak on a role-specialized character the last
\* record's assistant text is the returned string, which carries the review
\* label for a reviewer, the mentor label for a tutor and is the raw reply
\* for any other role; the assistant text of every earlier record is kept.
C7_StoredReplyIsReturned ==
    [][(/\ last'.op = "speak"
        /\ last'.exc = Ok
        /\ chars[last'.c].cls = Advanced)
       => LET c == last'.c
              h == chars'[c].history
              role == chars[c].role
          IN  /\ heap'[h[Len(h)]].assistant = last'.ret
              /\ role = "reviewer" => last'.ret = ReviewLabel \o last'.raw
              /\ role = "tutor" => last'.ret = TutorLabel \o last'.raw
              /\ role \notin {"reviewer", "tutor"} => last'.ret = last'.raw
              /\ \A r \in 1..Len(heap) : heap'[r].assistant = heap[r].assistant]_vars

\* a reviewer answered for the second time
C7_Witness ==
    /\ last.op = "speak"
    /\ last.exc = Ok
    /\ chars[last.c].role = "reviewer"
    /\ Len(chars[last.c].history) >= 2
    /\ StartsWith(heap[Len(heap)].assistant, ReviewLabel)

\* C8: token_used of a role-specialized character starts at 0, grows on a
\* successful speak by the words of the prefixed input plus the words of the
\* raw reply, which is at least 1, and is kept by every other step.
C8_TokensCountWords ==
    /\ \A c \in DOMAIN chars : chars[c].token_used = 0
    /\ [][\A c \in DOMAIN chars :
             chars[c].cls = Advanced =>
                 LET grown == chars'[c].token_used - chars[c].token_used
                 IN  IF SpokeOk(c)
                     THEN /\ grown = WordCount(PrefixedText(chars[c].role, last'.text))
                                       + WordCount(last'.raw)
                          /\ grown >= 1
                     ELSE grown = 0]_vars

\* a tutor that has counted tokens sees a failed speak
C8_Witness ==
    /\ last.op = "speak"
    /\ last.exc # Ok
    /\ chars[last.c].cls = Advanced
    /\ chars[last.c].token_used >= 2

\* C4: the name setter succeeds, storing the trimmed value, exactly when the
\* trimmed value has 1 to 50 characters; otherwise it fails and the stored
\* name is kept.
C4_NameSetterByTrimmedLength ==
    [][last'.op = "set_name" =>
          LET trimmed == Strip(last'.value)
          IN  IF Len(trimmed) \in 1..MAX_NAME_LENGTH
              THEN last'.exc = Ok /\ chars'[last'.c].name = trimmed
              ELSE last'.exc # Ok /\ chars'[last'.c].name = chars[last'.c].name]_vars

\* C6: a + b is a new character named a.name & b.name whose ledger is a's
\* records followed by b's; the merge changes no existing character and no
\* record, and a speak changes the ledger of no character but the speaker.
C6_MergeConcatenates ==
    [][/\ (last'.op = "add" /\ last'.exc = Ok) =>
             LET a == last'.a
                 b == last'.b
                 m == last'.c
             IN  /\ m \notin DOMAIN chars
                 /\ chars'[m].name = chars[a].name \o <<"&">> \o chars[b].name
                 /\ LedgerOf(chars', heap', m)
                       = LedgerOf(chars, heap, a) \o LedgerOf(chars, heap, b)
                 /\ Len(chars'[m].history)
                       = Len(chars[a].history) + Len(chars[b].history)
                 /\ \A c \in DOMAIN chars : chars'[c] = chars[c]
                 /\ heap' = heap
       /\ last'.op = "speak" =>
             \A d \in DOMAIN chars \ {last'.c} :
                 LedgerOf(chars', heap', d) = LedgerOf(chars, heap, d)]_vars

\* two characters with records were merged and the merged character spoke
C6_Witness ==
    /\ Len(chars) > Len(MergeOperands)
    /\ last.op = "speak"
    /\ last.exc = Ok
    /\ last.c = Len(MergeOperands) + 1
    /\ Len(chars[1].history) = 1
    /\ Len(chars[2].history) = 1
    /\ chars[last.c].name = MergedName(NameA, NameB)
    /\ Len(chars[last.c].history) = 3

\* C9: every key of the registry is the current name of the character stored
\* under it and no two registered characters have the same name; adding a
\* character whose name is registered fails and leaves the registry as it was.
C9_RegistryNamesUnique ==
    /\ \A k \in DOMAIN registry : chars[registry[k]].name = k
    /\ \A k1, k2 \in DOMAIN registry :
          k1 # k2 => /\ registry[k1] # registry[k2]
                     /\ chars[registry[k1]].name # chars[registry[k2]].name
    /\ (last.op = "add_character" /\ last.exc # Ok) =>
          \E k \in DOMAIN registry : k = chars[last.c].name

\* C10: batch_converse does not raise, invokes speak on every character of
\* the list, and files a result with success = FALSE under the name of each
\* character whose speak failed and one with success = TRUE under the others.
C10_BatchIsolatesFailures ==
    last.op = "batch_converse" =>
        /\ last.exc = Ok
        /\ Len(last.trace) = Len(last.cs)
        /\ \A i \in 1..Len(last.trace) :
              /\ chars[last.cs[i]].name \in DOMAIN last.results
              /\ last.results[chars[last.cs[i]].name].success = (last.trace[i] = Ok)

\* the configurations of a list that hold a name, in order
Named(configs) == SelectSeq(configs, LAMBDA config : "name" \in config.keys)

\* C11: batch_create_characters does not raise and returns, in the order of
\* the configurations, one character for each configuration that holds a
\* name and none for the others; the character's name is the name of its
\* configuration, and a configuration whose api_key the setter rejects still
\* yields its character, with no key set.
C11_BatchCreatePerRecord ==
    last.op = "batch_create" =>
        /\ last.exc = Ok
        /\ last.n = Len(Named(last.configs))
        /\ \A i \in 1..last.n :
              LET made == chars[last.first + i - 1]
                  config == Named(last.configs)[i]
              IN  /\ made.name = config.name
                  /\ ("api_key" \in config.keys /\ ApiKeySetter(config.api_key) # Ok)
                        => made.api_key = NoneValue

\* C13: the name of every character is a str of 1 to 50 characters that
\* neither starts nor ends with whitespace.
C13_NamesAreValid ==
    \A c \in DOMAIN chars :
        LET name == chars[c].name
        IN  /\ ~IsTuple1(name)
            /\ Len(name) \in 1..MAX_NAME_LENGTH
            /\ ~IsSpace(name[1])
            /\ ~IsSpace(name[Len(name)])

\* the keywords of the table, in its order: name, greeting, weather, season, thanks
Keywords == <<KwName, KwHello, KwWeather, KwAutumn, KwThanks>>

\* keyword k is the first of the table that occurs in the text
IsFirstKeyword(k, text) ==
    /\ Contains(Keywords[k], text)
    /\ \A j \in 1..(k - 1) : ~Contains(Keywords[j], text)

\* C12: the raw reply of a successful speak is a reply of the first keyword
\* of the table (name, greeting, weather, season, thanks) that occurs in the
\* text the engine saw, whatever else the text holds; when no keyword occurs
\* it is the fallback made of the character's name and that text, and speak
\* does not fail.
C12_FirstKeywordInTableOrderWins ==
    [][(last'.op = "speak" /\ ValidateInput(SeenText(chars[last'.c], last'.text)) = Ok)
       => LET seen == SeenText(chars[last'.c], last'.text)
              name == StrOf(chars[last'.c].name)
          IN  /\ \A k \in 1..Len(Keywords) :
                    (IsFirstKeyword(k, seen) /\ last'.exc = Ok)
                       => \E j \in 1..Len(RuleResponse(name)[k].response) :
                             /\ Format(RuleResponse(name)[k].response[j], name).exc = Ok
                             /\ Format(RuleResponse(name)[k].response[j], name).val
                                   = last'.raw
              /\ (\A k \in 1..Len(Keywords) : ~Contains(Keywords[k], seen))
                    => /\ last'.exc = Ok
                       /\ last'.raw = FallbackReply(name, seen)]_vars

\* a text with the weather keyword before the greeting keyword was answered
\* with a greeting reply
C12_Witness ==
    /\ last.op = "speak"
    /\ last.exc = Ok
    /\ last.text = TextWeatherHello
    /\ \E j \in 1..Len(HelloReplies) : last.raw = HelloReplies[j]
    /\ Len(heap) = 2

\* the words of the texts a ledger holds under a field
RECURSIVE LedgerWords(_, _)
LedgerWords(ledger, field) ==
    IF ledger = <<>> THEN 0
    ELSE WordCount(Head(ledger)[field]) + LedgerWords(Tail(ledger), field)

\* avg, in hundredths, is total / n rounded to two decimals
IsAverage(avg, total, n) == 2 * (avg * n - 100 * total) \in (-n)..n

\* C14: get_conversation_stats changes no record; on an empty ledger it
\* reports a total of 0; on a ledger of n > 0 records it reports the total
\* n and, for the user texts and for the assistant texts, the number of
\* their words divided by n (to two decimals).
C14_StatsAverageWords ==
    [][last'.op = "stats" =>
          LET ledger == LedgerOf(chars, heap, last'.c)
              n == Len(ledger)
          IN  /\ chars' = chars
              /\ heap' = heap
              /\ last'.exc = Ok
              /\ IF n = 0 THEN last'.ret.total = 0
                 ELSE /\ last'.ret.total_conversation = n
                      /\ IsAverage(last'.ret.avg_assistant_words,
                                   LedgerWords(ledger, "assistant"), n)
                      /\ IsAverage(last'.ret.avg_user_words,
                                   LedgerWords(ledger, "user"), n)]_vars

\* record r lies within the bounds given
InRange(r, start_date, end_date) ==
    /\ (start_date = NoBound \/ start_date <= Timestamp(r))
    /\ (end_date = NoBound \/ Timestamp(r) <= end_date)

\* C15: export_conversations does not raise and returns, in ledger order,
\* the records whose timestamp lies within the bounds given, an absent
\* bound leaving its side open.
C15_ExportWithinBounds ==
    last.op = "export" =>
        /\ last.exc = Ok
        /\ last.ret = SelectSeq(chars[last.c].history,
                                LAMBDA r : InRange(r, last.start_date, last.end_date))

====
